---------------------------- MODULE Spec2Model ----------------------------
(***************************************************************************)
(* Model of the mask utilities of vs-masktools:                            *)
(*   src/vsmasktools/utils.py  region_rel_mask, region_abs_mask,           *)
(*                             squaremask, replace_squaremask,             *)
(*                             freeze_replace_squaremask, normalize_mask   *)
(*   src/vsmasks/abstract.py   BoundingBox, DeferredMask                   *)
(*                                                                         *)
(* A clip is a record [width, height, bits, frames]; width/height are the  *)
(* dimensions the node reports (0 when they are only known per frame),     *)
(* frames is the sequence of frames, each [w, h, px] with px a function    *)
(* from <<x, y>> to the sample value of the single (luma/gray) plane.      *)
(* Python's None is the empty sequence, a present value v is <<v>>.        *)
(***************************************************************************)
EXTENDS Integers, Sequences, FiniteSets, TLC

VARIABLES pc, aka_expr_available, op, args, status, out, ops, calls, self, init_args

vars == <<pc, aka_expr_available, op, args, status, out, ops, calls, self, init_args>>

\* ------------------------------------------------------------------ bounds
MaxW == 3
MaxH == 2
MaxFrames == 2
MaxRanges == 2

BitDepths == {8, 16}

\* ----------------------------------------------------------------- helpers
None == << >>
Some(v) == <<v>>
IsNone(o) == Len(o) = 0
Val(o) == o[1]

Min(a, b) == IF a < b THEN a ELSE b
Max(a, b) == IF a > b THEN a ELSE b
Abs(a) == IF a < 0 THEN -a ELSE a

Pixels(w, h) == (0 .. w - 1) \X (0 .. h - 1)

NoClip == [width |-> 0, height |-> 0, bits |-> 0, frames |-> << >>]

num_frames(clip) == Len(clip.frames)

\* clip[n] for a valid index n (a negative n counts from the end): a one-frame clip
Index(clip, n) ==
    [clip EXCEPT !.frames = <<clip.frames[(IF n < 0 THEN n + Len(clip.frames) ELSE n) + 1]>>]

get_peak_value(clip) == 2 ^ clip.bits - 1

\* results of the Python functions: a status (ok or the exception raised), the
\* clip returned, the filters invoked to build it in call order (each <<name>>,
\* the expression filter <<"Expr", expression>>), and the strategy or callable
\* invocations made
Ok(clip, prims, invoked) == [status |-> "ok", clip |-> clip, ops |-> prims, calls |-> invoked]
Raise(exc, prims, invoked) == [status |-> exc, clip |-> NoClip, ops |-> prims, calls |-> invoked]

\* ------------------------------------------------- VapourSynth primitives
\* std.BlankClip(width, height, format, length, color)
BlankClip(width, height, bits, length, color) ==
    [width |-> width, height |-> height, bits |-> bits,
     frames |-> [i \in 1 .. length |->
                    [w |-> width, h |-> height, px |-> [p \in Pixels(width, height) |-> color]]]]

\* std.Loop(times) of a clip
RECURSIVE Repeat(_, _)
Repeat(s, times) == IF times <= 0 THEN << >> ELSE s \o Repeat(s, times - 1)

Loop(clip, times) == [clip EXCEPT !.frames = Repeat(clip.frames, times)]

\* std.AddBorders(left, right, top, bottom), default colour 0
AddBordersFrame(f, left, right, top, bottom) ==
    [w |-> f.w + left + right, h |-> f.h + top + bottom,
     px |-> [p \in Pixels(f.w + left + right, f.h + top + bottom) |->
                IF p[1] >= left /\ p[1] < left + f.w /\ p[2] >= top /\ p[2] < top + f.h
                THEN f.px[<<p[1] - left, p[2] - top>>] ELSE 0]]

AddBorders(clip, left, right, top, bottom) ==
    [clip EXCEPT !.width = IF clip.width = 0 THEN 0 ELSE clip.width + left + right,
                 !.height = IF clip.height = 0 THEN 0 ELSE clip.height + top + bottom,
                 !.frames = [i \in 1 .. Len(clip.frames) |->
                                AddBordersFrame(clip.frames[i], left, right, top, bottom)]]

\* std.CropAbs(width, height, left, top)
CropAbsFrame(f, width, height, left, top) ==
    [w |-> width, h |-> height,
     px |-> [p \in Pixels(width, height) |-> f.px[<<p[1] + left, p[2] + top>>]]]

CropAbs(clip, width, height, left, top) ==
    [clip EXCEPT !.width = width, !.height = height,
                 !.frames = [i \in 1 .. Len(clip.frames) |->
                                CropAbsFrame(clip.frames[i], width, height, left, top)]]

\* std.Crop(left, right, top, bottom)
Crop(clip, left, right, top, bottom) ==
    [clip EXCEPT !.width = clip.width - left - right, !.height = clip.height - top - bottom,
                 !.frames = [i \in 1 .. Len(clip.frames) |->
                                CropAbsFrame(clip.frames[i], clip.frames[i].w - left - right,
                                             clip.frames[i].h - top - bottom, left, top)]]

\* std.Invert() on an integer format
Invert(clip) ==
    [clip EXCEPT !.frames = [i \in 1 .. Len(clip.frames) |->
        [clip.frames[i] EXCEPT !.px = [p \in DOMAIN clip.frames[i].px |->
            get_peak_value(clip) - clip.frames[i].px[p]]]]]

\* std.Limiter() with its default limits
Limiter(clip) ==
    [clip EXCEPT !.frames = [i \in 1 .. Len(clip.frames) |->
        [clip.frames[i] EXCEPT !.px = [p \in DOMAIN clip.frames[i].px |->
            Max(0, Min(get_peak_value(clip), clip.frames[i].px[p]))]]]]

\* std.MaskedMerge(clipa, clipb, mask) on integer samples
MergeSample(a, b, m, bits) ==
    LET w == IF m > 2 ^ (bits - 1) - 1 THEN m + 1 ELSE m
    IN  a + (((b - a) * w + 2 ^ (bits - 1)) \div (2 ^ bits))

MaskedMerge(clipa, clipb, mask) ==
    [clipa EXCEPT !.frames = [i \in 1 .. Len(clipa.frames) |->
        [clipa.frames[i] EXCEPT !.px = [p \in DOMAIN clipa.frames[i].px |->
            MergeSample(clipa.frames[i].px[p],
                        clipb.frames[Min(i, Len(clipb.frames))].px[p],
                        mask.frames[Min(i, Len(mask.frames))].px[p],
                        clipa.bits)]]]]

\* ------------------------------------------------------ expression clips
\* The text '<cond> or or A B ?' is kept as its parts: the four comparison
\* constants and the two tokens selected when the comparison is true / false.
TokenValue(tok, x, peak) ==
    IF tok = "x" THEN x ELSE IF tok = "range_max" THEN peak ELSE 0

ExprOutside(e, X, Y) == X < e.xlo \/ X > e.xhi \/ Y < e.ylo \/ Y > e.yhi

norm_expr(clip, e) ==
    [clip EXCEPT !.frames = [i \in 1 .. Len(clip.frames) |->
        [clip.frames[i] EXCEPT !.px = [p \in DOMAIN clip.frames[i].px |->
            IF ExprOutside(e, p[1], p[2])
            THEN TokenValue(e.true, clip.frames[i].px[p], get_peak_value(clip))
            ELSE TokenValue(e.false, clip.frames[i].px[p], get_peak_value(clip))]]]]

\* replace is [isint, tokens]: an int n stands for the tokens 'x n'
IntReplace(n) == [isint |-> TRUE, tokens |-> <<ToString(n)>>]
StrReplace(a, b) == [isint |-> FALSE, tokens |-> <<a, b>>]

_get_region_expr_no_incr(clip, left, right, top, bottom, replace, rel) ==
    LET toks == IF replace.isint THEN <<"x", replace.tokens[1]>> ELSE replace.tokens
    IN  IF rel
        THEN [xlo |-> left, xhi |-> right, ylo |-> top, yhi |-> bottom,
              true |-> toks[1], false |-> toks[2]]
        ELSE [xlo |-> left, xhi |-> clip.width - right, ylo |-> top, yhi |-> clip.height - bottom,
              true |-> toks[1], false |-> toks[2]]

_get_region_expr(clip, left, right, top, bottom, replace, rel) ==
    LET right1 == right + 1
        bottom1 == bottom + 1
        toks == IF replace.isint THEN <<"x", replace.tokens[1]>> ELSE replace.tokens
    IN  IF rel
        THEN [xlo |-> left, xhi |-> right1, ylo |-> top, yhi |-> bottom1,
              true |-> toks[1], false |-> toks[2]]
        ELSE [xlo |-> left, xhi |-> clip.width - right1, ylo |-> top, yhi |-> clip.height - bottom1,
              true |-> toks[1], false |-> toks[2]]

\* ------------------------------------------------------- vstools helpers
\* a frame range is <<start, end>>, each None or a frame number, both inclusive
RangeStart(r) == IF IsNone(r[1]) THEN 0 ELSE Val(r[1])
RangeEnd(r, n) == IF IsNone(r[2]) THEN n - 1 ELSE Val(r[2])
InRange(r, k, n) == RangeStart(r) <= k /\ k <= RangeEnd(r, n)

\* replace_ranges(clip_a, clip_b, ranges): clip_b inside the ranges, clip_a outside
replace_ranges(clip_a, clip_b, ranges) ==
    [clip_a EXCEPT !.frames = [i \in 1 .. Len(clip_a.frames) |->
        IF \E j \in 1 .. Len(ranges) : InRange(ranges[j], i - 1, Len(clip_a.frames))
        THEN clip_b.frames[Min(i, Len(clip_b.frames))]
        ELSE clip_a.frames[i]]]

\* insert_clip(clip, insert, start_frame)
insert_clip(clip, insert, start_frame) ==
    LET frame_after_insert == start_frame + num_frames(insert)
    IN  IF frame_after_insert > num_frames(clip)
        THEN Raise("CustomValueError: inserted clip is too long", << >>, << >>)
        ELSE Ok([clip EXCEPT !.frames = SubSeq(clip.frames, 1, start_frame) \o insert.frames
                                          \o SubSeq(clip.frames, frame_after_insert + 1, Len(clip.frames))],
                << >>, << >>)

\* depth(clip, ref): sample conversion between integer bit depths, full range
\* (value * peak_out / peak_in, rounded) or limited range (a bit shift)
DepthSample(v, bits_in, bits_out, full) ==
    IF bits_in = bits_out THEN v
    ELSE IF full THEN (v * (2 ^ bits_out - 1) * 2 + (2 ^ bits_in - 1)) \div ((2 ^ bits_in - 1) * 2)
    ELSE IF bits_out > bits_in THEN v * 2 ^ (bits_out - bits_in)
    ELSE (v + 2 ^ (bits_in - bits_out - 1)) \div 2 ^ (bits_in - bits_out)

depth(clip, ref, full) ==
    [clip EXCEPT !.bits = ref.bits,
                 !.frames = [i \in 1 .. Len(clip.frames) |->
        [clip.frames[i] EXCEPT !.px = [p \in DOMAIN clip.frames[i].px |->
            Min(2 ^ ref.bits - 1, DepthSample(clip.frames[i].px[p], clip.bits, ref.bits, full))]]]]

\* box_blur(clip, radius, passes): per pass a horizontal then a vertical mean
\* over 2 radius + 1 samples, the frame extended by its edge samples
RECURSIVE WindowSum(_, _, _, _, _, _)
WindowSum(f, x, y, horizontal, k, radius) ==
    IF k > radius THEN 0
    ELSE (IF horizontal THEN f.px[<<Max(0, Min(f.w - 1, x + k)), y>>]
                        ELSE f.px[<<x, Max(0, Min(f.h - 1, y + k))>>])
         + WindowSum(f, x, y, horizontal, k + 1, radius)

\* (g @@ << >> is g, tabulated once instead of recomputed at every read)
BoxBlurPass(f, horizontal, radius) ==
    [f EXCEPT !.px = [p \in DOMAIN f.px |->
        (WindowSum(f, p[1], p[2], horizontal, -radius, radius) + radius) \div (2 * radius + 1)] @@ << >>]

BoxBlurFrame(f, radius) == BoxBlurPass(BoxBlurPass(f, TRUE, radius), FALSE, radius)

RECURSIVE box_blur(_, _, _)
box_blur(clip, radius, passes) ==
    IF passes <= 0 THEN clip
    ELSE box_blur([clip EXCEPT !.frames = [i \in 1 .. Len(clip.frames) |->
                                              BoxBlurFrame(clip.frames[i], radius)] @@ << >>],
                  radius, passes - 1)

\* ---------------------------------------------------------- utils.py
region_rel_mask(clip, left, right, top, bottom, akaAvail) ==
    IF akaAvail
    THEN Ok(norm_expr(clip, _get_region_expr(clip, left, right, top, bottom, IntReplace(0), FALSE)),
            <<<<"Expr", _get_region_expr(clip, left, right, top, bottom, IntReplace(0), FALSE)>>>>,
            << >>)
    ELSE Ok(AddBorders(Crop(clip, left, right, top, bottom), left, right, top, bottom),
            <<<<"Crop">>, <<"AddBorders">>>>, << >>)

\* the _crop closure of region_abs_mask, evaluated by FrameEval on one frame
region_abs_crop(f, width, height, left, top) ==
    AddBordersFrame(CropAbsFrame(f, width, height, left, top),
                    left, f.w - width - left, top, f.h - height - top)

region_abs_mask(clip, width, height, left, top, akaAvail) ==
    IF 0 \in {clip.width, clip.height}
    THEN IF akaAvail
         THEN Ok(norm_expr(clip, _get_region_expr(clip, left, left + width, top, top + height,
                                                  IntReplace(0), TRUE)),
                 <<<<"Expr", _get_region_expr(clip, left, left + width, top, top + height,
                                              IntReplace(0), TRUE)>>>>, << >>)
         ELSE Ok([clip EXCEPT !.frames = [i \in 1 .. Len(clip.frames) |->
                        region_abs_crop(clip.frames[i], width, height, left, top)]],
                 <<<<"FrameEval">>, <<"CropAbs">>, <<"AddBorders">>>>, << >>)
    ELSE region_rel_mask(clip, left, clip.width - width - left, top, clip.height - height - top,
                         akaAvail)

\* lines 113-134 of squaremask: the mask once the size check has passed
squaremask_build(clip, width, height, offset_x, offset_y, invert, akaAvail) ==
    LET e == _get_region_expr(clip, offset_x, clip.width - width - offset_x,
                              offset_y, clip.height - height - offset_y,
                              IF invert THEN StrReplace("range_max", "x")
                                        ELSE StrReplace("x", "range_max"), FALSE)
        bordered == AddBorders(BlankClip(width, height, clip.bits, 1, get_peak_value(clip)),
                               offset_x, clip.width - width - offset_x,
                               offset_y, clip.height - height - offset_y)
        built == IF akaAvail
                 THEN [clip |-> norm_expr(BlankClip(clip.width, clip.height, clip.bits, 1, 0), e),
                       ops |-> <<<<"BlankClip">>, <<"Expr", e>>>>]
                 ELSE IF invert
                 THEN [clip |-> Invert(bordered), ops |-> <<<<"BlankClip">>, <<"AddBorders">>, <<"Invert">>>>]
                 ELSE [clip |-> bordered, ops |-> <<<<"BlankClip">>, <<"AddBorders">>>>]
    IN  IF num_frames(clip) = 1
        THEN Ok(built.clip, built.ops, << >>)
        ELSE Ok(Loop(built.clip, num_frames(clip)), Append(built.ops, <<"Loop">>), << >>)

squaremask_ge(clip, width, height, offset_x, offset_y, invert, akaAvail) ==
    IF offset_x + width >= clip.width \/ offset_y + height >= clip.height
    THEN Raise("CustomValueError: mask exceeds clip size!", << >>, << >>)
    ELSE squaremask_build(clip, width, height, offset_x, offset_y, invert, akaAvail)

squaremask(clip, width, height, offset_x, offset_y, invert, akaAvail) ==
    IF offset_x + width > clip.width \/ offset_y + height > clip.height
    THEN Raise("CustomValueError: mask exceeds clip size!", << >>, << >>)
    ELSE squaremask_build(clip, width, height, offset_x, offset_y, invert, akaAvail)

\* mask_params is <<width, height, offset_x, offset_y>>; ranges is None or
\* <<list>>; blur_sigma is None or <<int>>
replace_squaremask_swapped(clipa, clipb, mask_params, ranges, blur_sigma, invert, show_mask, akaAvail) ==
    LET sq == squaremask(Index(clipb, 0), mask_params[1], mask_params[2], mask_params[3],
                         mask_params[4], invert, akaAvail)
    IN  IF sq.status # "ok" THEN sq
        ELSE LET rs == IF IsNone(ranges) THEN <<<<None, None>>>> ELSE Val(ranges)
                 blurred == IF IsNone(blur_sigma) THEN sq.clip ELSE box_blur(sq.clip, Val(blur_sigma), 1)
                 mask == Loop(blurred, num_frames(clipa))
             IN  IF show_mask THEN Ok(mask, sq.ops, << >>)
                 ELSE Ok(replace_ranges(clipa, MaskedMerge(clipb, clipa, mask), rs), sq.ops, << >>)

replace_squaremask(clipa, clipb, mask_params, ranges, blur_sigma, invert, show_mask, akaAvail) ==
    LET sq == squaremask(Index(clipb, 0), mask_params[1], mask_params[2], mask_params[3],
                         mask_params[4], invert, akaAvail)
    IN  IF sq.status # "ok" THEN sq
        ELSE LET rs == IF IsNone(ranges) THEN <<<<None, None>>>> ELSE Val(ranges)
                 blurred == IF IsNone(blur_sigma) THEN sq.clip ELSE box_blur(sq.clip, Val(blur_sigma), 1)
                 mask == Loop(blurred, num_frames(clipa))
                 prims == sq.ops \o (IF IsNone(blur_sigma) THEN << >> ELSE <<<<"box_blur">>>>)
                                 \o <<<<"Loop">>>>
             IN  IF show_mask THEN Ok(mask, prims, << >>)
                 ELSE LET merge == MaskedMerge(clipa, clipb, mask)
                      IN  Ok(replace_ranges(clipa, merge, rs),
                             prims \o <<<<"MaskedMerge">>, <<"replace_ranges">>>>, << >>)

freeze_replace_squaremask_short(mask, insert, mask_params, frame, frame_range, akaAvail) ==
    LET masked_insert == replace_squaremask(Index(mask, frame), Index(insert, frame), mask_params,
                                            None, None, FALSE, FALSE, akaAvail)
    IN  IF masked_insert.status # "ok" THEN masked_insert
        ELSE insert_clip(mask, [masked_insert.clip EXCEPT !.frames =
                                    Repeat(masked_insert.clip.frames, frame_range[2] - frame_range[1])],
                         frame_range[1])

freeze_replace_squaremask(mask, insert, mask_params, frame, frame_range, akaAvail) ==
    LET start == frame_range[1]
        end == frame_range[2]
        masked_insert == replace_squaremask(Index(mask, frame), Index(insert, frame), mask_params,
                                            None, None, FALSE, FALSE, akaAvail)
    IN  IF masked_insert.status # "ok" THEN masked_insert
        ELSE LET ins == insert_clip(mask, [masked_insert.clip EXCEPT !.frames =
                                               Repeat(masked_insert.clip.frames, end - start + 1)],
                                    start)
             IN  [ins EXCEPT !.ops = masked_insert.ops \o <<<<"insert_clip">>>>]

\* ------------------------------------------ mask sources (normalize_mask)
\* The strategies a caller may supply as the callable source or as the _mask
\* of a DeferredMask subclass: "ref" returns the reference, "absdiff" the
\* absolute difference of target and reference in the target's format.
Strategies == {"ref", "absdiff"}

Strategy(fn, clip, ref) ==
    IF fn = "ref" THEN ref
    ELSE [clip EXCEPT !.frames = [i \in 1 .. Len(clip.frames) |->
            [clip.frames[i] EXCEPT !.px = [p \in DOMAIN clip.frames[i].px |->
                Min(get_peak_value(clip),
                    Abs(clip.frames[i].px[p] - ref.frames[Min(i, Len(ref.frames))].px[p]))]]]]

\* EdgeDetect.edgemask / RidgeDetect.ridgemask of the detector registry: the
\* horizontal and the vertical gradient magnitude
edgemask(clip) ==
    [clip EXCEPT !.frames = [i \in 1 .. Len(clip.frames) |->
        [clip.frames[i] EXCEPT !.px = [p \in DOMAIN clip.frames[i].px |->
            Abs(clip.frames[i].px[p] - clip.frames[i].px[<<Max(0, p[1] - 1), p[2]>>])]]]]

ridgemask(clip) ==
    [clip EXCEPT !.frames = [i \in 1 .. Len(clip.frames) |->
        [clip.frames[i] EXCEPT !.px = [p \in DOMAIN clip.frames[i].px |->
            Abs(clip.frames[i].px[p] - clip.frames[i].px[<<p[1], Max(0, p[2] - 1)>>])]]]]

\* GeneralMask.get_mask(clip, ref): a full-frame mask of the target's geometry
general_get_mask(clip, ref) ==
    BlankClip(clip.width, clip.height, clip.bits, num_frames(clip), get_peak_value(clip))

\* a mask source: kind is "str", "type", "instance", "callable" or "clip";
\* cls the detector class it names or is an instance of, fn the callable,
\* clip the raw mask clip
Source(kind, cls, fn, clip) == [kind |-> kind, cls |-> cls, fn |-> fn, clip |-> clip]

IsEdgeDetect(m) == m.kind = "instance" /\ m.cls \in {"EdgeDetect", "RidgeDetect"}
IsRidgeDetect(m) == m.kind = "instance" /\ m.cls = "RidgeDetect"
IsGeneralMask(m) == m.kind = "instance" /\ m.cls = "GeneralMask"

\* lines 205-218 of normalize_mask: the source after the detector dispatch
normalize_mask_dispatch(mask, clip, ref, ridge) ==
    LET m1 == IF mask.kind = "str" THEN [mask EXCEPT !.kind = "instance"] ELSE mask
        m2 == IF m1.kind = "type" THEN [m1 EXCEPT !.kind = "instance"] ELSE m1
        m3 == IF IsRidgeDetect(m2) /\ ridge THEN Source("clip", "", "", ridgemask(clip)) ELSE m2
        m4 == IF IsEdgeDetect(m3) THEN Source("clip", "", "", edgemask(clip)) ELSE m3
    IN  IF IsGeneralMask(m4) THEN Source("clip", "", "", general_get_mask(clip, ref)) ELSE m4

normalize_mask_call_first(mask, clip, ref, ridge) ==
    LET m == normalize_mask_dispatch(mask, clip, ref, ridge)
    IN  IF m.kind = "callable"
        THEN IF IsNone(ref)
             THEN Raise("CustomValueError: This mask function requires a ref to be specified!",
                        << >>, <<[fn |-> m.fn, clip |-> clip, ref |-> NoClip]>>)
             ELSE Ok(depth(Strategy(m.fn, clip, Val(ref)), clip, FALSE), <<<<"depth">>>>,
                     <<[fn |-> m.fn, clip |-> clip, ref |-> Val(ref)]>>)
        ELSE Ok(depth(m.clip, clip, FALSE), <<<<"depth">>>>, << >>)

normalize_mask(mask, clip, ref, ridge) ==
    LET m == normalize_mask_dispatch(mask, clip, ref, ridge)
    IN  IF m.kind = "callable"
        THEN IF IsNone(ref)
             THEN Raise("CustomValueError: This mask function requires a ref to be specified!",
                        << >>, << >>)
             ELSE Ok(depth(Strategy(m.fn, clip, Val(ref)), clip, FALSE), <<<<"depth">>>>,
                     <<[fn |-> m.fn, clip |-> clip, ref |-> Val(ref)]>>)
        ELSE Ok(depth(m.clip, clip, FALSE), <<<<"depth">>>>, << >>)

\* ------------------------------------------------------- abstract.py
\* BoundingBox: pos is <<x, y>>, size is <<x, y>>
BoundingBox(pos, size, invert) == [pos |-> pos, size |-> size, invert |-> invert]

BoundingBox_get_mask(box, ref, akaAvail) ==
    squaremask(ref, box.size[1], box.size[2], box.pos[1], box.pos[2], box.invert, akaAvail)

\* the constructor arguments ranges and refframes are None, or <<[islist, v]>>:
\* v is the list given, or holds the one value given (one range, one int)
DeferredMask_ranges(ranges) ==
    IF IsNone(ranges) THEN <<<<Some(0), None>>>>
    ELSE IF Val(ranges).islist THEN Val(ranges).v ELSE <<Val(ranges).v[1]>>

\* normalize_seq(val, length)
normalize_seq(val, length) == [i \in 1 .. length |-> Some(val)]

DeferredMask_refframes(ranges, refframes) ==
    IF IsNone(refframes) THEN << >>
    ELSE IF Val(refframes).islist THEN Val(refframes).v
    ELSE normalize_seq(Val(Val(refframes).v[1]), Len(DeferredMask_ranges(ranges)))

DeferredMask__init__any_mismatch(ranges, bound, blur, refframes) ==
    [ranges |-> DeferredMask_ranges(ranges),
     refframes |-> DeferredMask_refframes(ranges, refframes),
     bound |-> bound, blur |-> blur,
     status |-> IF Len(DeferredMask_refframes(ranges, refframes)) # Len(DeferredMask_ranges(ranges))
                THEN "FramesLengthError" ELSE "ok"]

DeferredMask__init__(ranges, bound, blur, refframes) ==
    [ranges |-> DeferredMask_ranges(ranges),
     refframes |-> DeferredMask_refframes(ranges, refframes),
     bound |-> bound, blur |-> blur,
     status |-> IF Len(DeferredMask_refframes(ranges, refframes)) > 0
                   /\ Len(DeferredMask_refframes(ranges, refframes)) # Len(DeferredMask_ranges(ranges))
                THEN "FramesLengthError" ELSE "ok"]

\* ExprOp.MAX.combine(a, b)
MaxCombine(a, b) ==
    [a EXCEPT !.frames = [i \in 1 .. Len(a.frames) |->
        [a.frames[i] EXCEPT !.px = [p \in DOMAIN a.frames[i].px |->
            Max(a.frames[i].px[p], b.frames[Min(i, Len(b.frames))].px[p])]]]]

\* the loop of lines 77-88 from the k-th pair of zip(self.ranges, self.refframes)
\* on; acc is [hm, calls]
RECURSIVE DeferredMask_accumulate(_, _, _, _, _, _)
DeferredMask_accumulate(obj, clip, ref, fn, k, acc) ==
    IF k > Min(Len(obj.ranges), Len(obj.refframes)) THEN acc
    ELSE LET ran == obj.ranges[k]
             rf == IF IsNone(obj.refframes[k]) THEN num_frames(ref) - 1
                   ELSE IF Val(obj.refframes[k]) < 0 THEN num_frames(ref) - 1 + Val(obj.refframes[k])
                   ELSE Val(obj.refframes[k])
             mask == Loop(depth(Strategy(fn, Index(clip, rf), Index(ref, rf)), clip, TRUE),
                          num_frames(acc.hm))
         IN  DeferredMask_accumulate(obj, clip, ref, fn, k + 1,
                 [hm |-> replace_ranges(acc.hm, MaxCombine(acc.hm, mask), <<ran>>),
                  calls |-> Append(acc.calls, [fn |-> fn, clip |-> Index(clip, rf), ref |-> Index(ref, rf)])])

\* norm_expr([hm, bm], 'y <clamp(0, peak, x)> 0 ?')
BoundGate(hm, bm) ==
    [hm EXCEPT !.frames = [i \in 1 .. Len(hm.frames) |->
        [hm.frames[i] EXCEPT !.px = [p \in DOMAIN hm.frames[i].px |->
            IF bm.frames[Min(i, Len(bm.frames))].px[p] > 0
            THEN Max(0, Min(get_peak_value(hm), hm.frames[i].px[p])) ELSE 0]]]]

\* lines 72-98 of get_mask: the assembly and the final gate, bm the bounding
\* mask of lines 66-70 (unused without a bound); emptyPath is the branch taken
DeferredMask_assemble(obj, clip, ref, fn, bm, emptyPath) ==
    LET looped == DeferredMask_accumulate(obj, clip, ref, fn, 1,
                      [hm |-> BlankClip(ref.width, ref.height, ref.bits, num_frames(ref), 0),
                       calls |-> << >>])
        whole == [hm |-> depth(Strategy(fn, clip, ref), clip, TRUE),
                  calls |-> <<[fn |-> fn, clip |-> clip, ref |-> ref]>>]
        asm == IF emptyPath THEN looped ELSE whole
    IN  IF IsNone(obj.bound)
        THEN Ok(Limiter(asm.hm), <<<<"Limiter">>>>, asm.calls)
        ELSE Ok(BoundGate(asm.hm, bm), <<<<"Expr">>>>, asm.calls)

DeferredMask_get_mask_swapped(obj, clip, ref, fn, akaAvail) ==
    LET b == IF IsNone(obj.bound) THEN Ok(NoClip, << >>, << >>)
             ELSE BoundingBox_get_mask(Val(obj.bound), ref, akaAvail)
    IN  IF b.status # "ok" THEN b
        ELSE DeferredMask_assemble(obj, clip, ref, fn,
                                   IF obj.blur THEN box_blur(b.clip, 5, 5) ELSE b.clip,
                                   Len(obj.refframes) # 0)

DeferredMask_get_mask(obj, clip, ref, fn, akaAvail) ==
    LET b == IF IsNone(obj.bound) THEN Ok(NoClip, << >>, << >>)
             ELSE BoundingBox_get_mask(Val(obj.bound), ref, akaAvail)
    IN  IF b.status # "ok" THEN b
        ELSE DeferredMask_assemble(obj, clip, ref, fn,
                                   IF obj.blur THEN box_blur(b.clip, 5, 5) ELSE b.clip,
                                   Len(obj.refframes) = 0)

\* ------------------------------------------------------------------ inputs
\* A sample clip: every frame and every pixel carries its own value, and two
\* clips of different seed differ at every pixel.
SampleClip(w, h, bits, n, seed, variable) ==
    [width |-> IF variable THEN 0 ELSE w, height |-> IF variable THEN 0 ELSE h, bits |-> bits,
     frames |-> [i \in 1 .. n |->
        [w |-> w, h |-> h,
         px |-> [p \in Pixels(w, h) |-> (37 * seed + 11 * (i - 1) + 5 * p[1] + 3 * p[2]) % (2 ^ bits)]]]]

\* clips of every size up to MaxW x MaxH, and the clips of full size only
Clips(seed) == {SampleClip(w, h, b, n, seed, FALSE) :
                    w \in 1 .. MaxW, h \in 1 .. MaxH, b \in BitDepths, n \in 1 .. MaxFrames}

FullClips(seed) == {SampleClip(MaxW, MaxH, b, n, seed, FALSE) : b \in BitDepths, n \in 1 .. MaxFrames}

VariableClips(seed) == {SampleClip(w, h, b, n, seed, TRUE) :
                            w \in 1 .. MaxW, h \in 1 .. MaxH, b \in BitDepths, n \in 1 .. MaxFrames}

\* the clip of the same geometry, format and length as c, of another seed
Twin(c, seed) == SampleClip(c.frames[1].w, c.frames[1].h, c.bits, num_frames(c), seed, c.width = 0)

\* <<width, height, offset_x, offset_y>>
Rects == (1 .. MaxW) \X (1 .. MaxH) \X (0 .. MaxW - 1) \X (0 .. MaxH - 1)

RangeValues == {<<Some(0), Some(0)>>, <<Some(1), None>>}

RECURSIVE SeqsUpTo(_, _)
SeqsUpTo(S, n) == IF n = 0 THEN {<< >>}
                  ELSE SeqsUpTo(S, n - 1) \cup {Append(q, e) : q \in {t \in SeqsUpTo(S, n - 1) : Len(t) = n - 1}, e \in S}

RangeLists == SeqsUpTo(RangeValues, MaxRanges)

\* the constructor arguments of DeferredMask
RangesArgs == {None} \cup {Some([islist |-> FALSE, v |-> <<r>>]) : r \in RangeValues}
                     \cup {Some([islist |-> TRUE, v |-> l]) : l \in RangeLists}

RefframesArgs == {None} \cup {Some([islist |-> FALSE, v |-> <<Some(n)>>]) : n \in {0, -1}}
                        \cup {Some([islist |-> TRUE, v |-> l]) : l \in SeqsUpTo({None, Some(-1)}, MaxRanges)}

\* no bound, a box inside the MaxW x MaxH frame, a box that exceeds it
Bounds == {None, Some(BoundingBox(<<1, 0>>, <<MaxW - 1, 1>>, FALSE)),
           Some(BoundingBox(<<1, 0>>, <<MaxW, 1>>, FALSE))}

\* ------------------------------------------------------------------- state
NoObj == [ranges |-> << >>, refframes |-> << >>, bound |-> None, blur |-> FALSE, status |-> "none"]
NoArgs == [op |-> "none"]

Init ==
    /\ pc = "idle"
    /\ aka_expr_available \in BOOLEAN
    /\ op = "none"
    /\ args = NoArgs
    /\ status = "none"
    /\ out = NoClip
    /\ ops = << >>
    /\ calls = << >>
    /\ self = NoObj
    /\ init_args = NoArgs

\* a call of a module-level function returns: its arguments and result are recorded
Returned(name, a, r) ==
    \E res \in {r} :
        /\ pc' = "done"
        /\ op' = name
        /\ args' = a
        /\ status' = res.status
        /\ out' = res.clip
        /\ ops' = res.ops
        /\ calls' = res.calls
        /\ UNCHANGED <<aka_expr_available, self, init_args>>

CallRegionRelMask ==
    /\ pc = "idle"
    /\ \E clip \in Clips(0), left \in 0 .. MaxW - 1, right \in 0 .. MaxW - 1,
          top \in 0 .. MaxH - 1, bottom \in 0 .. MaxH - 1 :
        /\ left + right < clip.width
        /\ top + bottom < clip.height
        /\ Returned("region_rel_mask",
                    [clip |-> clip, left |-> left, right |-> right, top |-> top, bottom |-> bottom],
                    region_rel_mask(clip, left, right, top, bottom, aka_expr_available))

CallRegionAbsMask ==
    /\ pc = "idle"
    /\ \E clip \in Clips(0) \cup VariableClips(0), r \in Rects :
        /\ r[3] + r[1] <= clip.frames[1].w
        /\ r[4] + r[2] <= clip.frames[1].h
        /\ Returned("region_abs_mask",
                    [clip |-> clip, width |-> r[1], height |-> r[2], left |-> r[3], top |-> r[4]],
                    region_abs_mask(clip, r[1], r[2], r[3], r[4], aka_expr_available))

CallSquaremask ==
    /\ pc = "idle"
    /\ \E clip \in Clips(0), r \in Rects, invert \in BOOLEAN :
        Returned("squaremask",
                 [clip |-> clip, width |-> r[1], height |-> r[2], offset_x |-> r[3], offset_y |-> r[4],
                  invert |-> invert],
                 squaremask(clip, r[1], r[2], r[3], r[4], invert, aka_expr_available))

CallReplaceSquaremask ==
    /\ pc = "idle"
    /\ \E clipa \in FullClips(0), r \in Rects, ranges \in {None} \cup {Some(l) : l \in RangeLists},
          blur_sigma \in {None, Some(1)}, invert \in BOOLEAN, show_mask \in BOOLEAN :
        Returned("replace_squaremask",
                 [clipa |-> clipa, clipb |-> Twin(clipa, 1), mask_params |-> r, ranges |-> ranges,
                  blur_sigma |-> blur_sigma, invert |-> invert, show_mask |-> show_mask],
                 replace_squaremask(clipa, Twin(clipa, 1), r, ranges, blur_sigma, invert, show_mask,
                                    aka_expr_available))

CallFreezeReplaceSquaremask ==
    /\ pc = "idle"
    /\ \E mask \in FullClips(0), r \in Rects, frame \in 0 .. MaxFrames - 1,
          start \in 0 .. MaxFrames - 1, end \in 0 .. MaxFrames :
        /\ frame < num_frames(mask)
        /\ start <= end
        /\ start < num_frames(mask)
        /\ Returned("freeze_replace_squaremask",
                    [mask |-> mask, insert |-> Twin(mask, 1), mask_params |-> r, frame |-> frame,
                     frame_range |-> <<start, end>>],
                    freeze_replace_squaremask(mask, Twin(mask, 1), r, frame, <<start, end>>,
                                              aka_expr_available))

MaskSources(clip) ==
    {Source(k, c, "", NoClip) : k \in {"str"}, c \in {"EdgeDetect", "RidgeDetect"}}
    \cup {Source(k, c, "", NoClip) : k \in {"type", "instance"},
                                      c \in {"EdgeDetect", "RidgeDetect", "GeneralMask"}}
    \cup {Source("callable", "", fn, NoClip) : fn \in Strategies}
    \cup {Source("clip", "", "", Twin(clip, 1))}

CallNormalizeMask ==
    /\ pc = "idle"
    /\ \E clip \in Clips(0), refbits \in BitDepths, hasref \in BOOLEAN, ridge \in BOOLEAN :
        \E mask \in MaskSources(clip) :
            LET ref == IF hasref
                       THEN Some(SampleClip(clip.width, clip.height, refbits, num_frames(clip), 2, FALSE))
                       ELSE None
            IN  /\ (hasref \/ refbits = 8)
                /\ Returned("normalize_mask",
                            [mask |-> mask, clip |-> clip, ref |-> ref, ridge |-> ridge],
                            normalize_mask(mask, clip, ref, ridge))

CallDeferredMaskInit ==
    /\ pc = "idle"
    /\ \E ranges \in RangesArgs, bound \in Bounds, blur \in BOOLEAN, refframes \in RefframesArgs :
        /\ self' = DeferredMask__init__(ranges, bound, blur, refframes)
        /\ init_args' = [op |-> "DeferredMask.__init__", ranges |-> ranges, bound |-> bound,
                         blur |-> blur, refframes |-> refframes]
        /\ pc' = IF DeferredMask__init__(ranges, bound, blur, refframes).status = "ok"
                 THEN "ready" ELSE "failed"
    /\ UNCHANGED <<aka_expr_available, op, args, status, out, ops, calls>>

CallDeferredMaskGetMask ==
    /\ pc = "ready"
    /\ \E clip \in FullClips(0), refbits \in BitDepths, fn \in Strategies :
        LET ref == SampleClip(MaxW, MaxH, refbits, num_frames(clip), 1, FALSE)
        IN  Returned("DeferredMask.get_mask", [clip |-> clip, ref |-> ref, fn |-> fn],
                     DeferredMask_get_mask(self, clip, ref, fn, aka_expr_available))

\* the caller takes the result (or the exception) and drops the objects
Return ==
    /\ pc \in {"done", "failed"}
    /\ pc' = "idle"
    /\ op' = "none"
    /\ args' = NoArgs
    /\ status' = "none"
    /\ out' = NoClip
    /\ ops' = << >>
    /\ calls' = << >>
    /\ self' = NoObj
    /\ init_args' = NoArgs
    /\ UNCHANGED aka_expr_available

Next ==
    \/ CallRegionRelMask
    \/ CallRegionAbsMask
    \/ CallSquaremask
    \/ CallReplaceSquaremask
    \/ CallFreezeReplaceSquaremask
    \/ CallNormalizeMask
    \/ Return

Spec == Init /\ [][Next]_vars

\* the life of a DeferredMask: constructed, asked for its mask, dropped
NextDeferred ==
    \/ CallDeferredMaskInit
    \/ CallDeferredMaskGetMask
    \/ Return

SpecDeferred == Init /\ [][NextDeferred]_vars

\* ------------------------------------------------------------------ claims
SizeError == "CustomValueError: mask exceeds clip size!"
MissingRefError == "CustomValueError: This mask function requires a ref to be specified!"

InRect(p, width, height, offset_x, offset_y) ==
    offset_x <= p[1] /\ p[1] < offset_x + width /\ offset_y <= p[2] /\ p[2] < offset_y + height

\* C1: for a clip of known size and a rectangle inside it, squaremask returns a
\* mask of the clip's size and length whose pixel is the peak value exactly
\* inside [offset_x, offset_x + width) x [offset_y, offset_y + height) and 0
\* elsewhere, the two values swapped under invert, with and without the
\* expression evaluator.
C1_SquaremaskPixels ==
    (op = "squaremask" /\ args.offset_x + args.width <= args.clip.width
                       /\ args.offset_y + args.height <= args.clip.height) =>
        /\ status = "ok"
        /\ Len(out.frames) = num_frames(args.clip)
        /\ \A i \in 1 .. Len(out.frames) :
            /\ DOMAIN out.frames[i].px = Pixels(args.clip.width, args.clip.height)
            /\ \A p \in Pixels(args.clip.width, args.clip.height) :
                out.frames[i].px[p] =
                    IF InRect(p, args.width, args.height, args.offset_x, args.offset_y) # args.invert
                    THEN get_peak_value(args.clip) ELSE 0

C1_Witness ==
    /\ op = "squaremask" /\ status = "ok" /\ args.invert /\ ~aka_expr_available
    /\ Len(out.frames) > 1
    /\ \E p, q \in DOMAIN out.frames[1].px :
        out.frames[1].px[p] = 0 /\ out.frames[1].px[q] = get_peak_value(args.clip)

C4_RegionRelIdentity ==
    (op = "region_rel_mask" /\ args.left = 0 /\ args.right = 0 /\ args.top = 0 /\ args.bottom = 0) =>
        status = "ok" /\ out = args.clip

\* C6: replace_squaremask without blur, invert and show_mask returns a clip of
\* clipa's length whose frame is clipa's outside the ranges, and inside them
\* clipb's at the pixels of the rectangle and clipa's elsewhere; ranges None
\* is the whole clip.
InRanges(ranges, k, n) ==
    IF IsNone(ranges) THEN TRUE
    ELSE \E j \in 1 .. Len(Val(ranges)) : InRange(Val(ranges)[j], k, n)

C6_ReplaceSquaremask ==
    (op = "replace_squaremask" /\ status = "ok" /\ IsNone(args.blur_sigma)
        /\ ~args.invert /\ ~args.show_mask) =>
        /\ Len(out.frames) = num_frames(args.clipa)
        /\ \A i \in 1 .. Len(out.frames) :
            \A p \in DOMAIN args.clipa.frames[i].px :
                out.frames[i].px[p] =
                    IF InRanges(args.ranges, i - 1, num_frames(args.clipa))
                       /\ InRect(p, args.mask_params[1], args.mask_params[2],
                                 args.mask_params[3], args.mask_params[4])
                    THEN args.clipb.frames[i].px[p]
                    ELSE args.clipa.frames[i].px[p]

C6_Witness ==
    /\ op = "replace_squaremask" /\ status = "ok" /\ IsNone(args.blur_sigma)
    /\ ~args.invert /\ ~args.show_mask
    /\ args.ranges = Some(<<<<Some(1), None>>>>)
    /\ num_frames(args.clipa) = 2
    /\ args.mask_params = <<1, 1, 1, 1>>
    /\ out.frames[1] = args.clipa.frames[1]
    /\ out.frames[2] # args.clipa.frames[2]
    /\ out.frames[2] # args.clipb.frames[2]

\* C7: normalize_mask with a callable source raises the missing-reference
\* error without invoking the callable when ref is None, and otherwise
\* invokes it exactly once, on (clip, ref), and raises nothing.
C7_CallableNeedsRef ==
    (op = "normalize_mask" /\ args.mask.kind = "callable") =>
        IF IsNone(args.ref)
        THEN status = MissingRefError /\ calls = << >>
        ELSE status = "ok"
             /\ calls = <<[fn |-> args.mask.fn, clip |-> args.clip, ref |-> Val(args.ref)]>>

C7_Witness ==
    /\ op = "normalize_mask" /\ args.mask.kind = "callable" /\ IsNone(args.ref)
    /\ status = MissingRefError

\* C8: freeze_replace_squaremask with 0 <= start <= end < length returns a clip
\* of mask's length whose frames outside [start, end] are mask's own and whose
\* frames inside all are the one frame that is insert[frame] inside the
\* rectangle and mask[frame] elsewhere.
C8_FreezeReplace ==
    (op = "freeze_replace_squaremask"
        /\ args.frame_range[2] < num_frames(args.mask)
        /\ args.mask_params[3] + args.mask_params[1] <= args.mask.width
        /\ args.mask_params[4] + args.mask_params[2] <= args.mask.height) =>
        /\ status = "ok"
        /\ Len(out.frames) = num_frames(args.mask)
        /\ \A i \in 1 .. Len(out.frames) :
            IF args.frame_range[1] <= i - 1 /\ i - 1 <= args.frame_range[2]
            THEN \A p \in DOMAIN args.mask.frames[i].px :
                    out.frames[i].px[p] =
                        IF InRect(p, args.mask_params[1], args.mask_params[2],
                                  args.mask_params[3], args.mask_params[4])
                        THEN args.insert.frames[args.frame + 1].px[p]
                        ELSE args.mask.frames[args.frame + 1].px[p]
            ELSE out.frames[i] = args.mask.frames[i]

C8_Witness ==
    /\ op = "freeze_replace_squaremask" /\ status = "ok"
    /\ num_frames(args.mask) = MaxFrames
    /\ args.frame = 0 /\ args.frame_range = <<1, 1>>
    /\ out.frames[1] = args.mask.frames[1]
    /\ out.frames[2] # args.mask.frames[2]
    /\ out.frames[2] # args.mask.frames[1]

\* C10: with the expression evaluator, region_abs_mask compares against the
\* same region whether the clip reports its size or not: a pixel is outside
\* exactly when X < left, X > left + width - 1, Y < top or Y > top + height - 1.
C10_RegionAbsSameRegion ==
    (op = "region_abs_mask" /\ aka_expr_available /\ status = "ok") =>
        \A p \in DOMAIN args.clip.frames[1].px :
            ExprOutside(ops[1][2], p[1], p[2]) <=>
                (p[1] < args.left \/ p[1] > args.left + args.width - 1
                 \/ p[2] < args.top \/ p[2] > args.top + args.height - 1)

\* C3: get_mask without reference frames and without bound invokes the
\* strategy once per declared range on (target[last], ref[last]), and frame n
\* of the result is the pixelwise maximum of the strategy's mask over the
\* declared ranges that contain n, zero when none does.
C3_EmptyRefframesAccumulates ==
    (op = "DeferredMask.get_mask" /\ Len(self.refframes) = 0 /\ IsNone(self.bound)) =>
        LET last == num_frames(args.ref) - 1
            one == depth(Strategy(args.fn, Index(args.clip, last), Index(args.ref, last)),
                         args.clip, TRUE).frames[1]
        IN  /\ status = "ok"
            /\ calls = [k \in 1 .. Len(self.ranges) |->
                            [fn |-> args.fn, clip |-> Index(args.clip, last), ref |-> Index(args.ref, last)]]
            /\ Len(out.frames) = num_frames(args.ref)
            /\ \A i \in 1 .. Len(out.frames) : \A p \in DOMAIN out.frames[i].px :
                out.frames[i].px[p] =
                    IF \E k \in 1 .. Len(self.ranges) : InRange(self.ranges[k], i - 1, num_frames(args.ref))
                    THEN Max(0, Min(2 ^ out.bits - 1, one.px[p])) ELSE 0

\* C5: constructing a DeferredMask raises FramesLengthError exactly when the
\* reference frames given make a non-empty list whose length differs from the
\* number of ranges: refframes None makes the empty list, an int one entry per
\* range, a list itself; ranges None or a single range make one range.
ArgRangeCount(ranges) == IF IsNone(ranges) THEN 1 ELSE IF Val(ranges).islist THEN Len(Val(ranges).v) ELSE 1

ArgRefCount(ranges, refframes) ==
    IF IsNone(refframes) THEN 0
    ELSE IF Val(refframes).islist THEN Len(Val(refframes).v) ELSE ArgRangeCount(ranges)

C5_LengthErrorIff ==
    init_args.op = "DeferredMask.__init__" =>
        /\ Len(self.ranges) = ArgRangeCount(init_args.ranges)
        /\ Len(self.refframes) = ArgRefCount(init_args.ranges, init_args.refframes)
        /\ (self.status = "FramesLengthError") <=>
                (ArgRefCount(init_args.ranges, init_args.refframes) > 0
                 /\ ArgRefCount(init_args.ranges, init_args.refframes) # ArgRangeCount(init_args.ranges))
        /\ self.status \in {"ok", "FramesLengthError"}

C5_Witness ==
    /\ init_args.op = "DeferredMask.__init__"
    /\ pc = "failed" /\ self.status = "FramesLengthError"
    /\ Len(self.refframes) = 1 /\ Len(self.ranges) = 2

\* C9: get_mask with reference frames invokes the strategy exactly once, on
\* the whole target and ref, and returns what the configuration of the same
\* bound, blur and list length with other ranges and reference indices
\* returns for the same target, ref and strategy.
Canonical(obj) ==
    [obj EXCEPT !.ranges = [k \in 1 .. Len(obj.ranges) |-> <<Some(0), Some(0)>>],
                !.refframes = [k \in 1 .. Len(obj.refframes) |-> None]]

C9_RangesIgnored ==
    (op = "DeferredMask.get_mask" /\ Len(self.refframes) > 0 /\ status = "ok") =>
        /\ calls = <<[fn |-> args.fn, clip |-> args.clip, ref |-> args.ref]>>
        /\ out = DeferredMask_get_mask(Canonical(self), args.clip, args.ref, args.fn,
                                       aka_expr_available).clip

C9_Witness ==
    /\ op = "DeferredMask.get_mask" /\ status = "ok"
    /\ self.refframes = <<Some(-1), None>>
    /\ self.ranges = <<<<Some(1), None>>, <<Some(0), Some(0)>>>>
    /\ ~IsNone(self.bound) /\ self.blur
    /\ Len(calls) = 1
    /\ \E p \in DOMAIN out.frames[1].px : out.frames[1].px[p] > 0

=============================================================================
